---- MODULE Spec2Model ----
(***************************************************************************)
(* PhilipAI: the batch dispatch pipeline of src/App.tsx.                   *)
(*                                                                         *)
(* A pipeline run (startProcessing) decodes the loaded source, cuts it in  *)
(* CHUNK_DURATION windows and hands every window to                        *)
(* processBatchWithFailover, which walks the failover ladder of the        *)
(* selected engine.  Every await of the source (decode, audio preparation, *)
(* the remote call, the three timers) is a step of the model; the code     *)
(* between two awaits runs to completion inside one action.                *)
(*                                                                         *)
(* Every call of startProcessing is a run of its own (an entry of runs),   *)
(* so that two runs overlap in the model whenever the code lets them.      *)
(*                                                                         *)
(* Left out: wall-clock values (latencies, incident time, start and end    *)
(* time are kept as set / not set), message texts, the audio samples.      *)
(* An error message is kept as the one thing the code reads in it: whether *)
(* it holds one of the quota markers.                                      *)
(***************************************************************************)
EXTENDS Integers, Sequences, FiniteSets, TLC

(* ------------------------------ bounds -------------------------------- *)
\* disturbances in one behaviour of Spec: failing attempts, changes of the
\* selected engine, online / offline events
MaxDisturbances == 2
\* online / offline events in one behaviour
MaxConnectivityChanges == 1
\* calls of startProcessing in one behaviour
MaxRuns == 2
\* length of the longest source, in chunks
MaxChunks == 2
\* most raw triples in one chunk result handed to the assembler on its own
MaxTriples == 2
\* longest source (whole seconds) whose chunk plan is checked on its own
MaxDuration == 780
\* longest track that is exported
MaxTrack == 2

(* ------------------------- program constants -------------------------- *)
CHUNK_DURATION == 300
REQUEST_GAP == 5000
QUOTA_COOLDOWN == 7000
RETRY_DELAY == 2000
MAX_INCIDENTS == 30
\* the single-model variant (src/unnamed/part_001): retries of a chunk and
\* the base delays before a retry
MAX_RETRIES == 3
QUOTA_BACKOFF == 20000
FAULT_BACKOFF == 5000

MODEL_POOL ==
  << [id |-> "gemini-3-flash-preview", label |-> "Flash 3.0"],
     [id |-> "gemini-2.5-flash-native-audio-preview-12-2025", label |-> "Audio Native 2.5"],
     [id |-> "gemini-3-pro-preview", label |-> "Pro 3.0"],
     [id |-> "gemini-flash-lite-latest", label |-> "Flash Lite"] >>

ModelIds == { MODEL_POOL[k].id : k \in 1..Len(MODEL_POOL) }

Engines == {"titan", "silentwave", "globallink"}

\* the ladders hold 0-based indices into MODEL_POOL, as in the source
ENGINE_MAP ==
  [e \in Engines |->
     CASE e = "titan"      -> <<0, 1, 2, 3>>
       [] e = "silentwave" -> <<1, 0, 3, 2>>
       [] e = "globallink" -> <<2, 0, 1, 3>>]

\* MODEL_POOL[sequence[attemptIndex]]
ModelAt(engine, attemptIndex) == MODEL_POOL[ENGINE_MAP[engine][attemptIndex + 1] + 1]

INITIAL_ANALYTICS ==
  [totalRequests |-> 0, successfulRequests |-> 0, failoverEvents |-> 0,
   startTime |-> "null", endTime |-> "null",
   modelMetrics |-> [m \in ModelIds |-> [success |-> 0, fail |-> 0]]]

\* durations (whole seconds) of the sources that can be loaded
Durations == {0} \cup { k * CHUNK_DURATION : k \in 1..(MaxChunks - 1) }
                 \cup { MaxChunks * CHUNK_DURATION - 120 }

\* a source, given by its duration
Files == [duration : Durations]

NoFile == [duration |-> -1]

\* nothing has been exported
NoDownload == [exported |-> FALSE, text |-> ""]

\* The raw triples (relative to the chunk) the service returns for a chunk
\* of the source when it answers with a well-formed array: two triples, not
\* in order of start, for a full window, and none (silence) for a shorter
\* last window.
Transcript(file, chunk) ==
  IF (chunk + 1) * CHUNK_DURATION > file.duration THEN << >>
  ELSE << [start |-> 5, end |-> 7, text |-> "b"], [start |-> 0, end |-> 2, text |-> "a"] >>

\* what reading a field gives for an object that does not have it
Undefined == "undefined"

\* a response that parses to an array with an element that has no text field
InvalidTranscript == << [start |-> 0, end |-> 2, text |-> Undefined] >>

VARIABLES
  videoFile,       \* NoFile, or the loaded source (videoUrl is set with it)
  selectedEngine,
  status,          \* status.status
  segments,        \* the caption track
  progress,
  isProcessing,
  activeModelId,
  analytics,
  incidents,       \* newest first
  runs,            \* one record per call of startProcessing
  nextId,          \* source of the fresh segment ids (Date.now() + Math.random() + i)
  nMerges,         \* history: number of setSegments merges so far
  download,        \* the text of the last exported file, or NoDownload
  online,          \* navigator.onLine (isOnline follows it)
  budget           \* what the environment may still do: disturbances (events), of
                   \* which online / offline events (flips)

appVars == <<videoFile, selectedEngine, status, segments, progress, isProcessing,
             activeModelId, analytics, incidents, runs, nextId, nMerges, download>>
vars == <<videoFile, selectedEngine, status, segments, progress, isProcessing,
          activeModelId, analytics, incidents, runs, nextId, nMerges, download,
          online, budget>>

(* ---------------- the application state as one value ------------------ *)
World ==
  [videoFile |-> videoFile, selectedEngine |-> selectedEngine, status |-> status,
   segments |-> segments, progress |-> progress, isProcessing |-> isProcessing,
   activeModelId |-> activeModelId, analytics |-> analytics, incidents |-> incidents,
   runs |-> runs, nextId |-> nextId, nMerges |-> nMerges, download |-> download]

Becomes(w) ==
  /\ videoFile' = w.videoFile
  /\ selectedEngine' = w.selectedEngine
  /\ status' = w.status
  /\ segments' = w.segments
  /\ progress' = w.progress
  /\ isProcessing' = w.isProcessing
  /\ activeModelId' = w.activeModelId
  /\ analytics' = w.analytics
  /\ incidents' = w.incidents
  /\ runs' = w.runs
  /\ nextId' = w.nextId
  /\ nMerges' = w.nMerges
  /\ download' = w.download

(* ----------------------------- helpers -------------------------------- *)
Min(a, b) == IF a < b THEN a ELSE b

\* mutant of line 257: Math.floor in place of Math.ceil
NumChunksFloor(duration) == duration \div CHUNK_DURATION

\* Math.ceil(duration / CHUNK_DURATION) for a duration in whole seconds
NumChunks(duration) == (duration + CHUNK_DURATION - 1) \div CHUNK_DURATION

\* lines 260-261: start and end of the window of chunk i
Window(i, duration) ==
  [start |-> i * CHUNK_DURATION,
   end |-> Min(i * CHUNK_DURATION + CHUNK_DURATION, duration)]

\* Math.round(((i + 1) / numChunks) * 100)
Progress(i, numChunks) == (200 * (i + 1) + numChunks) \div (2 * numChunks)

\* errMsg.includes("429") || errMsg.includes("RESOURCE_EXHAUSTED") || errMsg.includes("Quota"):
\* an error message is modelled by whether it holds one of the markers
IsQuota(hasMarker) == hasMarker

\* mutant of line 202: an unstable sort, x goes in front of its equals
InsertBeforeEqual(t, x) ==
  LET k == Cardinality({ j \in 1..Len(t) : t[j].start_seconds < x.start_seconds })
  IN  SubSeq(t, 1, k) \o <<x>> \o SubSeq(t, k + 1, Len(t))

\* Array.prototype.sort with (a, b) => a.start_seconds - b.start_seconds is a
\* stable sort: x goes behind every element that does not start later
InsertByStart(t, x) ==
  LET k == Cardinality({ j \in 1..Len(t) : t[j].start_seconds <= x.start_seconds })
  IN  SubSeq(t, 1, k) \o <<x>> \o SubSeq(t, k + 1, Len(t))

RECURSIVE SortByStart(_)
SortByStart(s) ==
  IF s = << >> THEN << >>
  ELSE InsertByStart(SortByStart(SubSeq(s, 1, Len(s) - 1)), s[Len(s)])

\* mutant of line 198: the end of a segment is left relative to the chunk
AdjustedSegmentsRawEnd(data, offset, firstId, chunk, merge) ==
  [k \in 1..Len(data) |->
     [id |-> firstId + k - 1,
      start_seconds |-> data[k].start + offset,
      end_seconds |-> data[k].end,
      text |-> data[k].text,
      chunk |-> chunk,
      merge |-> merge]]

\* data.map(...) of lines 195-200; chunk and merge are history tags
AdjustedSegments(data, offset, firstId, chunk, merge) ==
  [k \in 1..Len(data) |->
     [id |-> firstId + k - 1,
      start_seconds |-> data[k].start + offset,
      end_seconds |-> data[k].end + offset,
      text |-> data[k].text,
      chunk |-> chunk,
      merge |-> merge]]

\* mutant of line 202: the new segments are appended and the track is not sorted
MergeAppends(prev, adjusted) == prev \o adjusted

\* setSegments(prev => [...prev, ...adjustedSegments].sort(...))
MergeSegments(prev, adjusted) == SortByStart(prev \o adjusted)

\* mutant of line 111: the log keeps the latest incident only
LogIncidentOnlyLatest(w, model, type, detail, severity) ==
  [w EXCEPT !.incidents =
     <<[model |-> model, type |-> type, detail |-> detail, severity |-> severity]>>]

\* mutant of line 111: the log is not cut
LogIncidentUncapped(w, model, type, detail, severity) ==
  [w EXCEPT !.incidents =
     <<[model |-> model, type |-> type, detail |-> detail, severity |-> severity]>> \o @]

\* setIncidents(prev => [newIncident, ...prev].slice(0, 30))
LogIncident(w, model, type, detail, severity) ==
  LET all == <<[model |-> model, type |-> type, detail |-> detail, severity |-> severity]>>
             \o w.incidents
  IN  [w EXCEPT !.incidents = SubSeq(all, 1, Min(Len(all), MAX_INCIDENTS))]

UpdateAnalytics(w, modelId, success) ==
  LET m == w.analytics.modelMetrics[modelId]
  IN  [w EXCEPT
        !.analytics.totalRequests = @ + 1,
        !.analytics.successfulRequests = @ + (IF success THEN 1 ELSE 0),
        !.analytics.modelMetrics[modelId] =
            [success |-> m.success + (IF success THEN 1 ELSE 0),
             fail |-> m.fail + (IF success THEN 0 ELSE 1)]]

\* setAnalytics(prev => ({ ...prev, failoverEvents: prev.failoverEvents + 1 }))
CountFailover(w) == [w EXCEPT !.analytics.failoverEvents = @ + 1]

(* --------------------- one run of startProcessing ---------------------- *)
\* hist, waited, lastKind, got and result are history: the attempts made for
\* the current chunk, the timer time since the last failure, the kind of the
\* last failure, the responses merged by this run, and how the run ended
NewRun(engine) ==
  [pc |-> "decode", engine |-> engine, i |-> 0, numChunks |-> 0,
   window |-> [start |-> 0, end |-> 0],
   attemptIndex |-> 0, retryCount |-> 0,
   hist |-> << >>, waited |-> 0, lastKind |-> "none", got |-> << >>, result |-> "none"]

\* mutant of lines 278-283: the abort also empties the caption track
AbortDiscardsOutput(w, r, why) ==
  LET w1 == [w EXCEPT !.isProcessing = FALSE,
                      !.analytics.endTime = "set",
                      !.status = "error",
                      !.segments = << >>,
                      !.runs[r].pc = "done",
                      !.runs[r].result = why]
  IN  LogIncident(w1, "Pipeline", "Fatal", why, "critical")

\* mutant of line 281: the abort reports the status completed
AbortReportsCompleted(w, r, why) ==
  LET w1 == [w EXCEPT !.isProcessing = FALSE,
                      !.analytics.endTime = "set",
                      !.status = "completed",
                      !.runs[r].pc = "done",
                      !.runs[r].result = why]
  IN  LogIncident(w1, "Pipeline", "Fatal", why, "critical")

\* catch block of startProcessing, lines 278-283
Abort(w, r, why) ==
  LET w1 == [w EXCEPT !.isProcessing = FALSE,
                      !.analytics.endTime = "set",
                      !.status = "error",
                      !.runs[r].pc = "done",
                      !.runs[r].result = why]
  IN  LogIncident(w1, "Pipeline", "Fatal", why, "critical")

\* lines 275-277
Complete(w, r) ==
  [w EXCEPT !.analytics.endTime = "set",
            !.status = "completed",
            !.isProcessing = FALSE,
            !.runs[r].pc = "done",
            !.runs[r].result = "completed"]

\* mutant of line 140: no test of navigator.onLine
EnterDispatchUnguarded(w, r, attemptIndex, retryCount) ==
  LET run == w.runs[r]
      sequence == ENGINE_MAP[run.engine]
  IN  IF attemptIndex >= Len(sequence) THEN Abort(w, r, "exhausted")
      ELSE [w EXCEPT
             !.activeModelId = ModelAt(run.engine, attemptIndex).id,
             !.runs[r].pc = "prep",
             !.runs[r].attemptIndex = attemptIndex,
             !.runs[r].retryCount = retryCount,
             !.runs[r].waited = 0,
             !.runs[r].hist = Append(@, [rung |-> attemptIndex, retry |-> retryCount,
                                         gap |-> run.waited,
                                         fo |-> w.analytics.failoverEvents,
                                         res |-> "pending"])]

\* the guards of processBatchWithFailover and its code up to the first await
\* (lines 138-157); a false return makes startProcessing throw (line 269)
EnterDispatch(w, r, attemptIndex, retryCount) ==
  LET run == w.runs[r]
      sequence == ENGINE_MAP[run.engine]
  IN  IF attemptIndex >= Len(sequence) THEN Abort(w, r, "exhausted")
      ELSE IF ~online THEN Abort(w, r, "offline")
      ELSE [w EXCEPT
             !.activeModelId = ModelAt(run.engine, attemptIndex).id,
             !.runs[r].pc = "prep",
             !.runs[r].attemptIndex = attemptIndex,
             !.runs[r].retryCount = retryCount,
             !.runs[r].waited = 0,
             !.runs[r].hist = Append(@, [rung |-> attemptIndex, retry |-> retryCount,
                                         gap |-> run.waited,
                                         fo |-> w.analytics.failoverEvents,
                                         res |-> "pending"])]

\* mutant of line 268: the chunk is entered where the chunk before it left off
StartChunkCarriesOver(w, r, i) ==
  EnterDispatch([w EXCEPT !.runs[r].i = i, !.runs[r].hist = << >>,
                          !.runs[r].window = Window(i, w.videoFile.duration),
                          !.runs[r].lastKind = "none"],
                r, w.runs[r].attemptIndex, w.runs[r].retryCount)

\* loop body of startProcessing up to the await of line 268
StartChunk(w, r, i) ==
  EnterDispatch([w EXCEPT !.runs[r].i = i, !.runs[r].hist = << >>,
                          !.runs[r].window = Window(i, w.videoFile.duration),
                          !.runs[r].lastKind = "none"],
                r, 0, 0)

\* mutant of line 272: the next iteration is entered with no time waited
AfterNoGap(w, r) == StartChunk(w, r, w.runs[r].i + 1)

\* the timer of line 272 fires and the loop enters its next iteration
AfterGap(w, r) ==
  StartChunk([w EXCEPT !.runs[r].waited = REQUEST_GAP], r, w.runs[r].i + 1)

\* mutants of line 226: a second same-rung retry; a retry after a quota error
RetrySameRungTwice(retryCount, isQuota) == retryCount < 2 /\ ~isQuota

RetrySameRungOnQuota(retryCount, isQuota) == retryCount < 1

\* line 226
RetrySameRung(retryCount, isQuota) == retryCount < 1 /\ ~isQuota

\* mutants of lines 221, 229 and 237: the retry count is carried over to the
\* next rung; the retry does not count itself; the cooldown is followed by
\* the same rung
QuotaShiftStays(attemptIndex, retryCount) ==
  [attemptIndex |-> attemptIndex, retryCount |-> 0]

QuotaShiftKeepsRetry(attemptIndex, retryCount) ==
  [attemptIndex |-> attemptIndex + 1, retryCount |-> retryCount]

RetryUncounted(attemptIndex, retryCount) ==
  [attemptIndex |-> attemptIndex, retryCount |-> retryCount]

FaultShiftKeepsRetry(attemptIndex, retryCount) ==
  [attemptIndex |-> attemptIndex + 1, retryCount |-> retryCount]

\* the arguments of the three recursive calls: lines 221, 229 and 237
QuotaShiftTarget(attemptIndex, retryCount) ==
  [attemptIndex |-> attemptIndex + 1, retryCount |-> 0]

RetryTarget(attemptIndex, retryCount) ==
  [attemptIndex |-> attemptIndex, retryCount |-> retryCount + 1]

FaultShiftTarget(attemptIndex, retryCount) ==
  [attemptIndex |-> attemptIndex + 1, retryCount |-> 0]

\* lines 214 and 233
HasNextRung(attemptIndex, len) == attemptIndex < len - 1

\* catch block of processBatchWithFailover, lines 204-241
HandleFailure(w, r, kind, hasMarker) ==
  LET run == w.runs[r]
      len == Len(ENGINE_MAP[run.engine])
      ai == run.attemptIndex
      currentModel == ModelAt(run.engine, ai)
      isQuota == IsQuota(hasMarker)
      w1 == LogIncident(w, currentModel.label, IF isQuota THEN "Quota" ELSE "Fault",
                        IF hasMarker THEN "message with a quota marker" ELSE "other message",
                        IF isQuota THEN "warning" ELSE "critical")
      w2 == UpdateAnalytics(w1, currentModel.id, FALSE)
      w3 == [w2 EXCEPT !.runs[r].hist[Len(run.hist)].res = IF isQuota THEN "quota" ELSE "fault",
                       !.runs[r].lastKind = kind,
                       !.runs[r].waited = 0]
  IN  IF isQuota /\ HasNextRung(ai, len)
      THEN LET w4 == LogIncident(w3, "Failover", "Quota Shift",
                                 ModelAt(run.engine, ai + 1).label, "info")
               w5 == CountFailover(w4)
           IN  [w5 EXCEPT !.status = "connecting", !.runs[r].pc = "cooldown"]
      ELSE IF RetrySameRung(run.retryCount, isQuota)
      THEN [w3 EXCEPT !.status = "connecting", !.runs[r].pc = "retry"]
      ELSE IF HasNextRung(ai, len)
      THEN LET w4 == LogIncident(w3, "Failover", "Fault Recovery",
                                 ModelAt(run.engine, ai + 1).label, "info")
               w5 == CountFailover(w4)
               next == FaultShiftTarget(ai, run.retryCount)
           IN  EnterDispatch(w5, r, next.attemptIndex, next.retryCount)
      ELSE Abort(w3, r, "exhausted")

\* lines 191-203 for a response that parses, then lines 271-277
HandleSuccess(w, r, data) ==
  LET run == w.runs[r]
      currentModel == ModelAt(run.engine, run.attemptIndex)
      w1 == UpdateAnalytics(w, currentModel.id, TRUE)
      adjusted == AdjustedSegments(data, run.i * CHUNK_DURATION, w.nextId, run.i,
                                   w.nMerges + 1)
      w2 == [w1 EXCEPT !.segments = MergeSegments(@, adjusted),
                       !.nextId = @ + Len(data),
                       !.nMerges = @ + 1,
                       !.runs[r].hist[Len(run.hist)].res = "ok",
                       !.runs[r].got = Append(@, data),
                       !.progress = Progress(run.i, run.numChunks)]
  IN  IF run.i < run.numChunks - 1
      THEN [w2 EXCEPT !.runs[r].pc = "gap"]
      ELSE Complete(w2, r)

(* ------------------------------ actions -------------------------------- *)
Init ==
  /\ videoFile = NoFile
  /\ selectedEngine = "titan"
  /\ status = "idle"
  /\ segments = << >>
  /\ progress = 0
  /\ isProcessing = FALSE
  /\ activeModelId = MODEL_POOL[1].id
  /\ analytics = INITIAL_ANALYTICS
  /\ incidents = << >>
  /\ runs = << >>
  /\ nextId = 1
  /\ nMerges = 0
  /\ download = NoDownload
  /\ online \in BOOLEAN
  /\ budget = [events |-> MaxDisturbances, flips |-> MaxConnectivityChanges]

\* the file input is rendered only while videoUrl is null (lines 384-393)
HandleFileChange ==
  /\ videoFile = NoFile
  /\ \E file \in Files :
       Becomes([World EXCEPT !.videoFile = file,
                             !.segments = << >>,
                             !.progress = 0,
                             !.incidents = << >>,
                             !.analytics = INITIAL_ANALYTICS,
                             !.status = "idle"])
  /\ UNCHANGED <<online, budget>>

\* the engine buttons are disabled while isProcessing (lines 359-362)
SetSelectedEngine ==
  /\ ~isProcessing
  /\ budget.events > 0
  /\ \E e \in Engines \ {selectedEngine} : selectedEngine' = e
  /\ budget' = [budget EXCEPT !.events = @ - 1]
  /\ UNCHANGED <<videoFile, status, segments, progress, isProcessing, activeModelId,
                 analytics, incidents, runs, nextId, nMerges, download, online>>

\* mutant of line 245: no test of isProcessing
CanStartWhileProcessing == videoFile # NoFile /\ online

\* line 245, and the disabled attribute of the button (line 414)
CanStart == videoFile # NoFile /\ ~isProcessing /\ online

\* mutant of line 250: the run starts in status streaming
StartedStreaming(w) ==
  [w EXCEPT !.isProcessing = TRUE,
            !.analytics.startTime = "set",
            !.analytics.endTime = "null",
            !.status = "streaming",
            !.runs = Append(@, NewRun(w.selectedEngine))]

\* mutant of line 249: starting a run sets the analytics back to zero
StartedResetsAnalytics(w) ==
  [w EXCEPT !.isProcessing = TRUE,
            !.analytics = [INITIAL_ANALYTICS EXCEPT !.startTime = "set"],
            !.status = "connecting",
            !.runs = Append(@, NewRun(w.selectedEngine))]

\* lines 248-252, up to the first await
Started(w) ==
  [w EXCEPT !.isProcessing = TRUE,
            !.analytics.startTime = "set",
            !.analytics.endTime = "null",
            !.status = "connecting",
            !.runs = Append(@, NewRun(w.selectedEngine))]

StartProcessing ==
  /\ CanStart
  /\ Len(runs) < MaxRuns
  /\ Becomes(Started(World))
  /\ UNCHANGED <<online, budget>>

\* lines 252-268: arrayBuffer and decodeAudioData return
Decoded ==
  \E r \in 1..Len(runs) :
    /\ runs[r].pc = "decode"
    /\ LET numChunks == NumChunks(videoFile.duration)
           w == [World EXCEPT !.runs[r].numChunks = numChunks]
       IN  Becomes(IF numChunks > 0 THEN StartChunk(w, r, 0) ELSE Complete(w, r))
    /\ UNCHANGED <<online, budget>>

\* arrayBuffer or decodeAudioData throws
DecodeFails ==
  \E r \in 1..Len(runs) :
    /\ runs[r].pc = "decode"
    /\ Becomes(Abort(World, r, "decode"))
    /\ UNCHANGED <<online, budget>>

\* lines 157-166: the payload is ready, the request is sent
Prepared ==
  \E r \in 1..Len(runs) :
    /\ runs[r].pc = "prep"
    /\ Becomes([World EXCEPT !.status = "streaming", !.runs[r].pc = "request"])
    /\ UNCHANGED <<online, budget>>

\* downsampleAudioBuffer, audioBufferToWav or blobToBase64 throws
PrepareFails ==
  \E r \in 1..Len(runs) :
    /\ runs[r].pc = "prep"
    /\ budget.events > 0
    /\ Becomes(HandleFailure(World, r, "prep", FALSE))
    /\ budget' = [budget EXCEPT !.events = @ - 1]
    /\ UNCHANGED online

\* generateContent throws: a quota error (message with a marker) or another one
RequestFails ==
  \E r \in 1..Len(runs), hasMarker \in BOOLEAN :
    /\ runs[r].pc = "request"
    /\ budget.events > 0
    /\ Becomes(HandleFailure(World, r, "api", hasMarker))
    /\ budget' = [budget EXCEPT !.events = @ - 1]
    /\ UNCHANGED online

\* generateContent returns a text that parses to an array of triples
ResponseParsed ==
  \E r \in 1..Len(runs) :
    /\ runs[r].pc = "request"
    /\ Becomes(HandleSuccess(World, r, Transcript(videoFile, runs[r].i)))
    /\ UNCHANGED <<online, budget>>

\* generateContent returns, JSON.parse or data.map throws (lines 192-195); the
\* message of the SyntaxError quotes the text or the position of the error
ResponseMalformed ==
  \E r \in 1..Len(runs), hasMarker \in BOOLEAN :
    /\ runs[r].pc = "request"
    /\ budget.events > 0
    /\ LET currentModel == ModelAt(runs[r].engine, runs[r].attemptIndex)
       IN  Becomes(HandleFailure(UpdateAnalytics(World, currentModel.id, TRUE),
                                 r, "parse", hasMarker))
    /\ budget' = [budget EXCEPT !.events = @ - 1]
    /\ UNCHANGED online

\* the timer of line 220 fires, line 221
CooldownElapsed ==
  \E r \in 1..Len(runs) :
    /\ runs[r].pc = "cooldown"
    /\ LET next == QuotaShiftTarget(runs[r].attemptIndex, runs[r].retryCount)
       IN  Becomes(EnterDispatch([World EXCEPT !.runs[r].waited = @ + QUOTA_COOLDOWN],
                                 r, next.attemptIndex, next.retryCount))
    /\ UNCHANGED <<online, budget>>

\* the timer of line 228 fires, line 229
RetryDelayElapsed ==
  \E r \in 1..Len(runs) :
    /\ runs[r].pc = "retry"
    /\ LET next == RetryTarget(runs[r].attemptIndex, runs[r].retryCount)
       IN  Becomes(EnterDispatch([World EXCEPT !.runs[r].waited = @ + RETRY_DELAY],
                                 r, next.attemptIndex, next.retryCount))
    /\ UNCHANGED <<online, budget>>

\* the timer of line 272 fires, next iteration of the loop
GapElapsed ==
  \E r \in 1..Len(runs) :
    /\ runs[r].pc = "gap"
    /\ Becomes(AfterGap(World, r))
    /\ UNCHANGED <<online, budget>>

\* the online and offline events of lines 64-72
ConnectivityChange ==
  /\ budget.events > 0
  /\ budget.flips > 0
  /\ online' = ~online
  /\ budget' = [events |-> budget.events - 1, flips |-> budget.flips - 1]
  /\ UNCHANGED <<videoFile, selectedEngine, status, segments, progress, isProcessing,
                 activeModelId, analytics, incidents, runs, nextId, nMerges, download>>

Next ==
  \/ HandleFileChange
  \/ SetSelectedEngine
  \/ StartProcessing
  \/ Decoded
  \/ DecodeFails
  \/ Prepared
  \/ PrepareFails
  \/ RequestFails
  \/ ResponseParsed
  \/ ResponseMalformed
  \/ CooldownElapsed
  \/ RetryDelayElapsed
  \/ GapElapsed
  \/ ConnectivityChange

Spec == Init /\ [][Next]_vars

(* ------------- one dispatch of processBatchWithFailover ---------------- *)
\* The states in which the first run on a freshly loaded source has just
\* entered the dispatch of one of its chunks, every earlier chunk having
\* succeeded at its first attempt (HandleFileChange, possibly
\* SetSelectedEngine, StartProcessing, Decoded, then Prepared, ResponseParsed
\* and GapElapsed for every earlier chunk), and from there the steps of that
\* one dispatch, under every outcome of every attempt.
RECURSIVE AtChunk(_, _)
AtChunk(w, i) ==
  IF i = 0 THEN StartChunk(w, 1, 0)
  ELSE LET w1 == AtChunk(w, i - 1)
           w2 == [w1 EXCEPT !.status = "streaming", !.runs[1].pc = "request"]
           w3 == HandleSuccess(w2, 1, Transcript(w.videoFile, i - 1))
       IN  AfterGap(w3, 1)

InitDispatch ==
  /\ online = TRUE
  /\ \E file \in Files, e \in Engines :
     \E i \in 0..(NumChunks(file.duration) - 1) :
       LET w0 == [videoFile |-> file, selectedEngine |-> e, status |-> "idle",
                  segments |-> << >>, progress |-> 0, isProcessing |-> FALSE,
                  activeModelId |-> MODEL_POOL[1].id, analytics |-> INITIAL_ANALYTICS,
                  incidents |-> << >>, runs |-> << >>, nextId |-> 1, nMerges |-> 0,
                  download |-> NoDownload]
           w1 == [Started(w0) EXCEPT !.runs[1].numChunks = NumChunks(file.duration)]
           w2 == AtChunk(w1, i)
       IN  /\ videoFile = w2.videoFile
           /\ selectedEngine = w2.selectedEngine
           /\ status = w2.status
           /\ segments = w2.segments
           /\ progress = w2.progress
           /\ isProcessing = w2.isProcessing
           /\ activeModelId = w2.activeModelId
           /\ analytics = w2.analytics
           /\ incidents = w2.incidents
           /\ runs = w2.runs
           /\ nextId = w2.nextId
           /\ nMerges = w2.nMerges
           /\ download = w2.download
           /\ budget = [events |-> 2 * Len(ENGINE_MAP[e]) + MaxConnectivityChanges,
                        flips |-> MaxConnectivityChanges]

NextDispatch ==
  \/ Prepared
  \/ PrepareFails
  \/ RequestFails
  \/ ResponseParsed
  \/ ResponseMalformed
  \/ CooldownElapsed
  \/ RetryDelayElapsed
  \/ ConnectivityChange

SpecDispatch == InitDispatch /\ [][NextDispatch]_vars

(* ------------------ one run of startProcessing ------------------------- *)
\* The states in which Engage has just been pressed for the first time on a
\* freshly loaded source (HandleFileChange, possibly SetSelectedEngine,
\* StartProcessing), and from there the steps of that run to its end, while
\* the host stays online: the decoding may fail and every request may fail
\* with either classification, so that a chunk can exhaust its ladder anywhere in the run.
Engaged(file, e) ==
  LET w0 == [videoFile |-> file, selectedEngine |-> e, status |-> "idle",
             segments |-> << >>, progress |-> 0, isProcessing |-> FALSE,
             activeModelId |-> MODEL_POOL[1].id, analytics |-> INITIAL_ANALYTICS,
             incidents |-> << >>, runs |-> << >>, nextId |-> 1, nMerges |-> 0,
                  download |-> NoDownload]
      w1 == Started(w0)
  IN  /\ videoFile = w1.videoFile
      /\ selectedEngine = w1.selectedEngine
      /\ status = w1.status
      /\ segments = w1.segments
      /\ progress = w1.progress
      /\ isProcessing = w1.isProcessing
      /\ activeModelId = w1.activeModelId
      /\ analytics = w1.analytics
      /\ incidents = w1.incidents
      /\ runs = w1.runs
      /\ nextId = w1.nextId
      /\ nMerges = w1.nMerges
      /\ download = w1.download

InitRun ==
  /\ online = TRUE
  /\ \E file \in Files, e \in Engines :
       /\ Engaged(file, e)
       /\ budget = [events |-> 2 * Len(ENGINE_MAP[e]) + 1, flips |-> 0]

NextRun ==
  \/ Decoded
  \/ DecodeFails
  \/ Prepared
  \/ RequestFails
  \/ ResponseParsed
  \/ CooldownElapsed
  \/ RetryDelayElapsed
  \/ GapElapsed

SpecRun == InitRun /\ [][NextRun]_vars

(* ----------------- one run, every call returning ----------------------- *)
\* A run when every awaited call and every timer returns in the end: a
\* request is answered by a well-formed response, by a malformed one, or
\* fails with either classification. A source of one chunk meets as many
\* failures as exhaust its ladder twice over, a longer one MaxDisturbances.
InitLive ==
  /\ online = TRUE
  /\ \E file \in Files, e \in Engines :
       /\ Engaged(file, e)
       /\ budget = [events |-> IF NumChunks(file.duration) > 1
                                THEN MaxDisturbances
                                ELSE 2 * Len(ENGINE_MAP[e]) + 1,
                    flips |-> 0]

NextLive ==
  \/ Decoded
  \/ DecodeFails
  \/ Prepared
  \/ RequestFails
  \/ ResponseParsed
  \/ ResponseMalformed
  \/ CooldownElapsed
  \/ RetryDelayElapsed
  \/ GapElapsed

SpecLive == InitLive /\ [][NextLive]_vars /\ WF_vars(NextLive)

(* ------------------- the segment assembler alone ----------------------- *)
\* Lines 194-202 applied to at most MaxChunks chunk results, of chunks
\* 0..MaxChunks, handed over in any order, each chunk once: the raw triples of a result are relative to the
\* chunk, come in any order, and may start at or after the end of the window.
RawTriples ==
  { [start |-> 0, end |-> 2, text |-> "a"],
    [start |-> CHUNK_DURATION, end |-> CHUNK_DURATION + 2, text |-> "b"],
    [start |-> CHUNK_DURATION + 100, end |-> CHUNK_DURATION + 102, text |-> "a"] }

RawResults == UNION { [1..n -> RawTriples] : n \in 1..MaxTriples }

InitAssembler ==
  /\ videoFile = NoFile
  /\ selectedEngine = "titan"
  /\ status = "idle"
  /\ segments = << >>
  /\ progress = 0
  /\ isProcessing = FALSE
  /\ activeModelId = MODEL_POOL[1].id
  /\ analytics = INITIAL_ANALYTICS
  /\ incidents = << >>
  /\ runs = << >>
  /\ nextId = 1
  /\ nMerges = 0
  /\ download = NoDownload
  /\ online = TRUE
  /\ budget = [events |-> 0, flips |-> 0]

\* lines 194-202 for the result of one chunk
MergeResult ==
  \E chunk \in 0..MaxChunks, data \in RawResults :
    /\ nMerges < MaxChunks
    /\ \A k \in 1..Len(segments) : segments[k].chunk # chunk
    /\ LET adjusted == AdjustedSegments(data, chunk * CHUNK_DURATION, nextId, chunk,
                                        nMerges + 1)
       IN  segments' = MergeSegments(segments, adjusted)
    /\ nextId' = nextId + Len(data)
    /\ nMerges' = nMerges + 1
    /\ UNCHANGED <<videoFile, selectedEngine, status, progress, isProcessing,
                   activeModelId, analytics, incidents, runs, download, online,
                   budget>>

NextAssembler ==
  \/ MergeResult

SpecAssembler == InitAssembler /\ [][NextAssembler]_vars

(* ------------------------ the chunk plan alone ------------------------- *)
\* The states in which Engage has just been pressed on a source of any
\* duration up to MaxDuration, and from there the run with every request
\* answered at once: the loop of lines 259-273 walks through the plan.
InitPlanner ==
  /\ online = TRUE
  /\ budget = [events |-> 0, flips |-> 0]
  /\ \E duration \in 0..MaxDuration :
       LET w0 == [videoFile |-> [duration |-> duration], selectedEngine |-> "titan",
                  status |-> "idle", segments |-> << >>, progress |-> 0,
                  isProcessing |-> FALSE, activeModelId |-> MODEL_POOL[1].id,
                  analytics |-> INITIAL_ANALYTICS, incidents |-> << >>,
                  runs |-> << >>, nextId |-> 1, nMerges |-> 0,
                  download |-> NoDownload]
           w1 == Started(w0)
       IN  /\ videoFile = w1.videoFile
           /\ selectedEngine = w1.selectedEngine
           /\ status = w1.status
           /\ segments = w1.segments
           /\ progress = w1.progress
           /\ isProcessing = w1.isProcessing
           /\ activeModelId = w1.activeModelId
           /\ analytics = w1.analytics
           /\ incidents = w1.incidents
           /\ runs = w1.runs
           /\ nextId = w1.nextId
           /\ nMerges = w1.nMerges
           /\ download = w1.download

NextPlanner ==
  \/ Decoded
  \/ Prepared
  \/ ResponseParsed
  \/ GapElapsed

SpecPlanner == InitPlanner /\ [][NextPlanner]_vars

(* ------------------------ the incident log alone ----------------------- *)
\* logIncident applied to logs that are full or one entry short of it: the
\* log holds Fault incidents and at most one Quota incident, at any place
AttemptIncident(type) ==
  [model |-> MODEL_POOL[1].label, type |-> type,
   detail |-> IF type = "Quota" THEN "message with a quota marker" ELSE "other message",
   severity |-> IF type = "Quota" THEN "warning" ELSE "critical"]

Logs ==
  { [k \in 1..n |-> AttemptIncident(IF k = p THEN "Quota" ELSE "Fault")] :
      n \in (MAX_INCIDENTS - 1)..MAX_INCIDENTS, p \in 0..MAX_INCIDENTS }

InitIncidents ==
  /\ videoFile \in Files
  /\ selectedEngine = "titan"
  /\ status = "idle"
  /\ segments = << >>
  /\ progress = 0
  /\ isProcessing = FALSE
  /\ activeModelId = MODEL_POOL[1].id
  /\ analytics = INITIAL_ANALYTICS
  /\ incidents \in Logs
  /\ runs = << >>
  /\ nextId = 1
  /\ nMerges = 0
  /\ download = NoDownload
  /\ online = TRUE
  /\ budget = [events |-> MaxDisturbances, flips |-> 0]

\* one call of logIncident, line 209
LogsIncident ==
  /\ budget.events > 0
  /\ \E type \in {"Fault", "Quota"} :
       LET new == AttemptIncident(type)
       IN  Becomes(LogIncident(World, new.model, new.type, new.detail, new.severity))
  /\ budget' = [budget EXCEPT !.events = @ - 1]
  /\ UNCHANGED online

NextIncidents ==
  \/ LogsIncident

SpecIncidents == InitIncidents /\ [][NextIncidents]_vars

(* ---------------- responses that break the schema ---------------------- *)
\* lines 191-203 for a response that parses to an array one of whose
\* elements lacks a required field: nothing between JSON.parse and
\* setSegments looks at the elements, s.text is undefined for such an element
ResponseInvalid ==
  \E r \in 1..Len(runs) :
    /\ runs[r].pc = "request"
    /\ Becomes(HandleSuccess(World, r, InvalidTranscript))
    /\ UNCHANGED <<online, budget>>

\* the run of InitPlanner with every request answered at once, by a
\* well-formed response or by one that breaks the schema
NextResponse ==
  \/ Decoded
  \/ Prepared
  \/ ResponseParsed
  \/ ResponseInvalid
  \/ GapElapsed

SpecResponse == InitPlanner /\ [][NextResponse]_vars

(* ------------------- one run, the host going offline ------------------- *)
\* The run of InitRun with at most MaxDisturbances failed requests and
\* MaxConnectivityChanges online / offline events, which may fall before the
\* first attempt of a chunk, during a retry delay or a cooldown, during the
\* request gap, or while a request is in flight.
InitOffline ==
  /\ online = TRUE
  /\ \E file \in Files, e \in Engines :
       /\ Engaged(file, e)
       /\ budget = [events |-> MaxDisturbances + MaxConnectivityChanges,
                    flips |-> MaxConnectivityChanges]

NextOffline ==
  \/ Decoded
  \/ Prepared
  \/ RequestFails
  \/ ResponseParsed
  \/ CooldownElapsed
  \/ RetryDelayElapsed
  \/ GapElapsed
  \/ ConnectivityChange

SpecOffline == InitOffline /\ [][NextOffline]_vars

(* ----------------------- the single-model variant ---------------------- *)
\* processBatch and startProcessing of src/unnamed/part_001: one model, no
\* ladder, no analytics and no incident log. A run record keeps rung 0; the
\* preparation of lines 59-61 lies in the try block with the request, so a
\* failure of either is one failing attempt.

\* mutant of line 105: the delay does not grow with the retries
BackoffFlat(isQuota, retryCount) ==
  IF isQuota THEN QUOTA_BACKOFF ELSE FAULT_BACKOFF

\* lines 103 and 105: backoff * (retryCount + 1)
Backoff(isQuota, retryCount) ==
  (IF isQuota THEN QUOTA_BACKOFF ELSE FAULT_BACKOFF) * (retryCount + 1)

\* mutant of line 102: one retry less
CanRetryTwice(retryCount) == retryCount < MAX_RETRIES - 1

\* line 102
CanRetry(retryCount) == retryCount < MAX_RETRIES

\* processBatch is called (lines 138 and 106) and runs up to its await
ProcessBatch(w, r, retryCount) ==
  [w EXCEPT !.runs[r].pc = "request",
            !.runs[r].retryCount = retryCount,
            !.runs[r].waited = 0,
            !.runs[r].hist = Append(@, [rung |-> 0, retry |-> retryCount,
                                        gap |-> w.runs[r].waited, fo |-> 0,
                                        res |-> "pending"])]

\* loop body of startProcessing, lines 129-138
ProcessChunk(w, r, i) ==
  ProcessBatch([w EXCEPT !.status = "streaming",
                         !.runs[r].i = i,
                         !.runs[r].hist = << >>,
                         !.runs[r].window = Window(i, w.videoFile.duration)],
               r, 0)

\* catch block of startProcessing, lines 153-156
AbortSingle(w, r, why) ==
  [w EXCEPT !.isProcessing = FALSE,
            !.status = "error",
            !.runs[r].pc = "done",
            !.runs[r].result = why]

\* lines 151-152
CompleteSingle(w, r) ==
  [w EXCEPT !.status = "completed",
            !.isProcessing = FALSE,
            !.runs[r].pc = "done",
            !.runs[r].result = "completed"]

\* catch block of processBatch, lines 98-109, up to its await
ProcessBatchFailure(w, r, hasMarker) ==
  LET run == w.runs[r]
      isQuota == hasMarker
      w1 == [w EXCEPT !.runs[r].hist[Len(run.hist)].res =
                          IF isQuota THEN "quota" ELSE "fault",
                      !.runs[r].lastKind = IF isQuota THEN "quota" ELSE "fault"]
  IN  IF CanRetry(run.retryCount)
      THEN [w1 EXCEPT !.status = "connecting", !.runs[r].pc = "backoff"]
      ELSE AbortSingle(w1, r, "exhausted")

\* lines 88-97, then lines 142-152
ProcessBatchSuccess(w, r, data) ==
  LET run == w.runs[r]
      adjusted == AdjustedSegments(data, run.i * CHUNK_DURATION, w.nextId, run.i,
                                   w.nMerges + 1)
      w1 == [w EXCEPT !.segments = MergeSegments(@, adjusted),
                      !.nextId = @ + Len(data),
                      !.nMerges = @ + 1,
                      !.runs[r].hist[Len(run.hist)].res = "ok",
                      !.runs[r].got = Append(@, data),
                      !.progress = Progress(run.i, run.numChunks)]
  IN  IF run.i < run.numChunks - 1
      THEN [w1 EXCEPT !.status = "connecting", !.runs[r].pc = "gap"]
      ELSE CompleteSingle(w1, r)

\* Engage has just been pressed on a freshly loaded source (lines 113-119)
InitSingle ==
  /\ \E file \in Files : videoFile = file
  /\ selectedEngine = "titan"
  /\ status = "connecting"
  /\ segments = << >>
  /\ progress = 0
  /\ isProcessing = TRUE
  /\ activeModelId = MODEL_POOL[1].id
  /\ analytics = INITIAL_ANALYTICS
  /\ incidents = << >>
  /\ runs = << NewRun("titan") >>
  /\ nextId = 1
  /\ nMerges = 0
  /\ download = NoDownload
  /\ online = TRUE
  /\ budget = [events |-> MAX_RETRIES + MaxDisturbances, flips |-> 0]

\* lines 119-138: arrayBuffer and decodeAudioData return
DecodedSingle ==
  \E r \in 1..Len(runs) :
    /\ runs[r].pc = "decode"
    /\ LET numChunks == NumChunks(videoFile.duration)
           w == [World EXCEPT !.status = "streaming", !.runs[r].numChunks = numChunks]
       IN  Becomes(IF numChunks > 0 THEN ProcessChunk(w, r, 0) ELSE CompleteSingle(w, r))
    /\ UNCHANGED <<online, budget>>

\* arrayBuffer or decodeAudioData throws
DecodeFailsSingle ==
  \E r \in 1..Len(runs) :
    /\ runs[r].pc = "decode"
    /\ budget.events > 0
    /\ Becomes(AbortSingle(World, r, "decode"))
    /\ budget' = [budget EXCEPT !.events = @ - 1]
    /\ UNCHANGED online

\* the preparation, the request, JSON.parse or data.map throws
BatchFails ==
  \E r \in 1..Len(runs), hasMarker \in BOOLEAN :
    /\ runs[r].pc = "request"
    /\ budget.events > 0
    /\ Becomes(ProcessBatchFailure(World, r, hasMarker))
    /\ budget' = [budget EXCEPT !.events = @ - 1]
    /\ UNCHANGED online

\* generateContent returns an array that parses
BatchParsed ==
  \E r \in 1..Len(runs) :
    /\ runs[r].pc = "request"
    /\ Becomes(ProcessBatchSuccess(World, r, Transcript(videoFile, runs[r].i)))
    /\ UNCHANGED <<online, budget>>

\* the timer of line 105 fires, line 106
BackoffElapsed ==
  \E r \in 1..Len(runs) :
    /\ runs[r].pc = "backoff"
    /\ LET delay == Backoff(runs[r].lastKind = "quota", runs[r].retryCount)
       IN  Becomes(ProcessBatch([World EXCEPT !.runs[r].waited = @ + delay],
                                r, runs[r].retryCount + 1))
    /\ UNCHANGED <<online, budget>>

\* the timer of line 147 fires, next iteration of the loop
GapElapsedSingle ==
  \E r \in 1..Len(runs) :
    /\ runs[r].pc = "gap"
    /\ Becomes(ProcessChunk([World EXCEPT !.runs[r].waited = REQUEST_GAP],
                            r, runs[r].i + 1))
    /\ UNCHANGED <<online, budget>>

NextSingle ==
  \/ DecodedSingle
  \/ DecodeFailsSingle
  \/ BatchFails
  \/ BatchParsed
  \/ BackoffElapsed
  \/ GapElapsedSingle

SpecSingle == InitSingle /\ [][NextSingle]_vars

(* --------------------------- the export alone -------------------------- *)
\* src/utils/timeFormatter.ts applied by downloadSRT to a track. In this
\* part a number of seconds with at most three decimals is held as its
\* count of thousandths; the code receives the double nearest to it.
Digits == <<"0", "1", "2", "3", "4", "5", "6", "7", "8", "9">>

RECURSIVE PadStart(_, _)
\* n.toString().padStart(width, '0'), n a natural number
PadStart(n, width) ==
  IF n < 10 /\ width <= 1
  THEN Digits[n + 1]
  ELSE PadStart(n \div 10, width - 1) \o Digits[(n % 10) + 1]

RECURSIVE Join(_, _)
\* strs.join(sep)
Join(strs, sep) ==
  IF strs = << >> THEN ""
  ELSE IF Len(strs) = 1 THEN strs[1]
  ELSE strs[1] \o sep \o Join(Tail(strs), sep)

RECURSIVE Pow2(_)
Pow2(n) == IF n = 0 THEN 1 ELSE 2 * Pow2(n - 1)

RECURSIVE Pow2Mod(_, _)
\* 2^k modulo n
Pow2Mod(k, n) == IF k = 0 THEN 1 % n ELSE (2 * Pow2Mod(k - 1, n)) % n

\* the binary exponent e of thousandths / 1000 (2^e <= value < 2^(e+1))
Exponent(thousandths) ==
  IF thousandths >= 1000
  THEN CHOOSE e \in 0..20 :
         /\ Pow2(e) * 1000 <= thousandths
         /\ thousandths < Pow2(e + 1) * 1000
  ELSE 0 - (CHOOSE n \in 1..10 :
              /\ thousandths * Pow2(n) >= 1000
              /\ thousandths * Pow2(n - 1) < 1000)

\* the binary exponent of the doubles just below the whole number f >= 1
ExponentBelow(f) ==
  IF f = 1 THEN 0 - 1
  ELSE CHOOSE e \in 0..9 : Pow2(e) < f /\ f <= Pow2(e + 1)

\* Math.floor((seconds % 1) * 1000) of line 5, in IEEE 754 double arithmetic
\* (53 significant bits, round to nearest). With f the thousandths of the
\* fraction and e the exponent, the double nearest to the decimal lies
\* below it iff the remainder r of thousandths * 2^(52-e) by 1000 is in
\* 1..499 (r is a multiple of 8, never 500), and then by r / (1000 * 2^(52-e));
\* seconds % 1 is exact; the product by 1000 is f - r / 2^(52-e), which is
\* rounded up to f iff that distance is at most half the spacing 2^(p-52) of
\* the doubles below f (p their exponent), that is iff r <= 2^(p-e-1).
FractionMillis(thousandths) ==
  LET f == thousandths % 1000
      e == Exponent(thousandths)
      r == (f * Pow2Mod(52 - e, 1000)) % 1000
      d == ExponentBelow(f) - e - 1
  IN  IF thousandths = 0 \/ r = 0 \/ r > 500 THEN f
      ELSE IF d >= 0 /\ r <= Pow2(d) THEN f
      ELSE f - 1

\* lines 2-8: date.setSeconds drops the fraction, toISOString().substr(11, 8)
\* is the time of day HH:MM:SS of the date
formatSecondsToSRT(seconds) ==
  LET whole == seconds \div 1000
      ms == FractionMillis(seconds)
      timePart == PadStart((whole \div 3600) % 24, 2) \o ":"
                    \o PadStart((whole \div 60) % 60, 2) \o ":"
                    \o PadStart(whole % 60, 2)
  IN  timePart \o "," \o PadStart(ms, 3)

\* lines 10-18; index is 0-based as in the source
generateSRT(segs) ==
  Join([k \in 1..Len(segs) |->
          LET seg == segs[k]
              index == k - 1
              start == formatSecondsToSRT(seg.start_seconds)
              end == formatSecondsToSRT(seg.end_seconds)
          IN  PadStart(index + 1, 1) \o "\n" \o start \o " --> " \o end \o "\n"
                \o seg.text \o "\n"],
       "\n")

\* times (in thousandths of a second) and texts of the cues of a track
ExportTimes == {0, 1001, 65250, 67000, 86399999}

ExportTexts == {"hi", "a"}

Cues ==
  { c \in [start : ExportTimes, end : ExportTimes, text : ExportTexts] :
      c.start <= c.end }

\* the tracks of 1..MaxTrack cues, in order of start as line 202 keeps them
Tracks ==
  UNION { { [k \in 1..n |->
              [id |-> k, start_seconds |-> t[k].start, end_seconds |-> t[k].end,
               text |-> t[k].text, chunk |-> 0, merge |-> 1]] :
            t \in { u \in [1..n -> Cues] :
                      \A k \in 1..(n - 1) : u[k].start <= u[k + 1].start } } :
          n \in 1..MaxTrack }

InitExport ==
  /\ videoFile = [duration |-> MaxDuration]
  /\ selectedEngine = "titan"
  /\ status = "completed"
  /\ segments \in Tracks
  /\ progress = 100
  /\ isProcessing = FALSE
  /\ activeModelId = MODEL_POOL[1].id
  /\ analytics = INITIAL_ANALYTICS
  /\ incidents = << >>
  /\ runs = << >>
  /\ nextId = MaxTrack + 1
  /\ nMerges = 1
  /\ download = NoDownload
  /\ online = TRUE
  /\ budget = [events |-> 0, flips |-> 0]

\* downloadSRT, lines 286-294; the button is disabled on an empty track (line 421)
DownloadSRT ==
  /\ Len(segments) > 0
  /\ download' = [exported |-> TRUE, text |-> generateSRT(segments)]
  /\ UNCHANGED <<videoFile, selectedEngine, status, segments, progress, isProcessing,
                 activeModelId, analytics, incidents, runs, nextId, nMerges, online,
                 budget>>

NextExport == DownloadSRT

SpecExport == InitExport /\ [][NextExport]_vars

(* ======================================================================= *)
(*                                 claims                                   *)
(* ======================================================================= *)
Runs == 1..Len(runs)

LadderLength(r) == Len(ENGINE_MAP[runs[r].engine])

\* the attempts of run r for its current chunk that have failed
Failed(r) == { k \in 1..Len(runs[r].hist) : runs[r].hist[k].res \in {"fault", "quota"} }

\* every attempt made so far for the current chunk failed (or is under way)
\* with the given classification
AllAttempts(r, res) ==
  \A k \in 1..Len(runs[r].hist) : runs[r].hist[k].res \in {res, "pending"}

\* the run gave its current chunk up: line 240 (ladder exhausted)
FailedChunk(r) == runs[r].pc = "done" /\ runs[r].result = "exhausted"

\* the run was cut short by the connectivity guard of line 140
CutOffline(r) == runs[r].pc = "done" /\ runs[r].result = "offline"

(* C1: a chunk all of whose attempts fail with a non-quota error is tried   *)
(* at rung 0 twice, then at rung 1 twice, and so on in ladder order (the    *)
(* k-th attempt is at rung (k-1) div 2 with retryCount (k-1) mod 2), and    *)
(* the dispatch returns failure only after 2*L attempts, the retry of the   *)
(* last rung included.                                                      *)
C1_TransientBound ==
  \A r \in Runs :
    AllAttempts(r, "fault") =>
      /\ \A k \in 1..Len(runs[r].hist) :
           /\ runs[r].hist[k].rung = (k - 1) \div 2
           /\ runs[r].hist[k].retry = (k - 1) % 2
      /\ Len(runs[r].hist) <= 2 * LadderLength(r)
      /\ FailedChunk(r) => Len(runs[r].hist) = 2 * LadderLength(r)

C1_Witness ==
  \E r \in Runs :
    /\ FailedChunk(r)
    /\ Len(runs[r].hist) = 2 * LadderLength(r)
    /\ \A k \in 1..Len(runs[r].hist) : runs[r].hist[k].res = "fault"

(* C2: a chunk all of whose attempts fail with a quota error is tried once  *)
(* at every rung, in ladder order, and the dispatch returns failure after   *)
(* exactly L attempts.                                                      *)
C2_QuotaBound ==
  \A r \in Runs :
    AllAttempts(r, "quota") =>
      /\ \A k \in 1..Len(runs[r].hist) :
           /\ runs[r].hist[k].rung = k - 1
           /\ runs[r].hist[k].retry = 0
      /\ Len(runs[r].hist) <= LadderLength(r)
      /\ FailedChunk(r) => Len(runs[r].hist) = LadderLength(r)

C2_Witness ==
  \E r \in Runs :
    /\ FailedChunk(r)
    /\ Len(runs[r].hist) = LadderLength(r)
    /\ \A k \in 1..Len(runs[r].hist) : runs[r].hist[k].res = "quota"

(* C3: after a quota failure at a rung that is not the last, whatever the  *)
(* retryCount, failoverEvents is one more than before the attempt and the   *)
(* run waits in the cooldown; the next attempt, if the host is still online *)
(* for one, is at the next rung with retryCount 0 and starts QUOTA_COOLDOWN *)
(* after the failure; the failed rung is not attempted again.               *)
C3_QuotaShift ==
  \A r \in Runs : \A k \in Failed(r) :
    LET h == runs[r].hist IN
    (h[k].res = "quota" /\ h[k].rung < LadderLength(r) - 1) =>
      /\ k = Len(h) =>
           /\ analytics.failoverEvents = h[k].fo + 1
           /\ runs[r].pc = "cooldown" \/ CutOffline(r)
      /\ k < Len(h) =>
           /\ h[k + 1].rung = h[k].rung + 1
           /\ h[k + 1].retry = 0
           /\ h[k + 1].gap = QUOTA_COOLDOWN
           /\ h[k + 1].fo = h[k].fo + 1
      /\ \A j \in (k + 1)..Len(h) : h[j].rung # h[k].rung

C3_Witness ==
  \E r \in Runs : \E k \in Failed(r) :
    /\ runs[r].hist[k].res = "quota"
    /\ runs[r].hist[k].retry = 1
    /\ runs[r].hist[k].rung < LadderLength(r) - 1
    /\ k < Len(runs[r].hist)

(* C4: after a non-quota failure with retryCount 0 the run waits for the    *)
(* retry with failoverEvents unchanged; the next attempt, if the host is    *)
(* still online for one, is at the same rung with retryCount 1 and starts   *)
(* RETRY_DELAY after the failure; no rung is attempted a third time.        *)
C4_TransientRetry ==
  \A r \in Runs : \A k \in Failed(r) :
    LET h == runs[r].hist IN
    (h[k].res = "fault" /\ h[k].retry = 0) =>
      /\ k = Len(h) =>
           /\ analytics.failoverEvents = h[k].fo
           /\ runs[r].pc = "retry" \/ CutOffline(r)
      /\ k < Len(h) =>
           /\ h[k + 1].rung = h[k].rung
           /\ h[k + 1].retry = 1
           /\ h[k + 1].gap = RETRY_DELAY
           /\ h[k + 1].fo = h[k].fo
      /\ Cardinality({ j \in 1..Len(h) : h[j].rung = h[k].rung }) <= 2

C4_Witness ==
  \E r \in Runs : \E k \in Failed(r) :
    /\ runs[r].hist[k].res = "fault"
    /\ runs[r].hist[k].retry = 0
    /\ runs[r].hist[k].rung = LadderLength(r) - 1
    /\ k < Len(runs[r].hist)
    /\ runs[r].hist[k + 1].res = "ok"

(* C5: after a non-quota failure with retryCount >= 1 at a rung that is not *)
(* the last, failoverEvents is one more than before the attempt and the     *)
(* next attempt, if the host is still online for one, is at the next rung   *)
(* with retryCount 0 and starts with no timer in between.                   *)
C5_FaultShift ==
  \A r \in Runs : \A k \in Failed(r) :
    LET h == runs[r].hist IN
    (h[k].res = "fault" /\ h[k].retry >= 1 /\ h[k].rung < LadderLength(r) - 1) =>
      /\ k = Len(h) =>
           /\ analytics.failoverEvents = h[k].fo + 1
           /\ CutOffline(r)
      /\ k < Len(h) =>
           /\ h[k + 1].rung = h[k].rung + 1
           /\ h[k + 1].retry = 0
           /\ h[k + 1].gap = 0
           /\ h[k + 1].fo = h[k].fo + 1

C5_Witness ==
  \E r \in Runs : \E k \in Failed(r) :
    /\ runs[r].hist[k].res = "fault"
    /\ runs[r].hist[k].retry = 1
    /\ runs[r].hist[k].rung < LadderLength(r) - 1
    /\ k < Len(runs[r].hist)
    /\ runs[r].hist[k + 1].gap = 0

(* C6, as claimed: every failure at the last rung, whatever its            *)
(* classification and retryCount, is the last attempt of the chunk and      *)
(* sends the chunk to FAILED_CHUNK.                                         *)
C6_LastRungFailsAtOnce ==
  \A r \in Runs : \A k \in Failed(r) :
    runs[r].hist[k].rung = LadderLength(r) - 1 =>
      k = Len(runs[r].hist) /\ FailedChunk(r)

(* C6, amended: a failure at the last rung is the last attempt of the chunk *)
(* and sends it to FAILED_CHUNK when it is a quota failure or when          *)
(* retryCount >= 1; a non-quota failure at the last rung with retryCount 0  *)
(* is first retried once at that rung.                                      *)
C6_LastRung ==
  \A r \in Runs : \A k \in Failed(r) :
    LET h == runs[r].hist IN
    h[k].rung = LadderLength(r) - 1 =>
      IF h[k].res = "quota" \/ h[k].retry >= 1
      THEN k = Len(h) /\ FailedChunk(r)
      ELSE /\ k = Len(h) => (runs[r].pc = "retry" \/ CutOffline(r))
           /\ k < Len(h) => /\ k + 1 = Len(h)
                            /\ h[k + 1].rung = h[k].rung
                            /\ h[k + 1].retry = 1

C6_Witness ==
  \E r \in Runs :
    LET h == runs[r].hist IN
    /\ FailedChunk(r)
    /\ Len(h) >= 2
    /\ h[Len(h)].rung = LadderLength(r) - 1
    /\ h[Len(h)].res = "quota"
    /\ h[Len(h)].retry = 1
    /\ h[Len(h) - 1].rung = LadderLength(r) - 1
    /\ h[Len(h) - 1].res = "fault"

\* the latest failed attempt of run r for its current chunk
LastFailed(r) == CHOOSE k \in Failed(r) : \A j \in Failed(r) : j <= k

(* C7: a malformed response is handled as a transient fault, never by the   *)
(* quota rule: with retryCount 0 the same rung is retried after RETRY_DELAY *)
(* and otherwise the next rung is entered with no timer in between.         *)
C7_MalformedIsTransient ==
  \A r \in Runs :
    (runs[r].lastKind = "parse" /\ Failed(r) # {}) =>
      LET h == runs[r].hist
          k == LastFailed(r)
      IN  /\ h[k].res = "fault"
          /\ (h[k].retry = 0 /\ k < Len(h)) =>
               /\ h[k + 1].rung = h[k].rung
               /\ h[k + 1].retry = 1
               /\ h[k + 1].gap = RETRY_DELAY
          /\ (h[k].retry >= 1 /\ k < Len(h)) =>
               /\ h[k + 1].rung = h[k].rung + 1
               /\ h[k + 1].retry = 0
               /\ h[k + 1].gap = 0

\* start, end and text of the segments of a track
Triples(track) ==
  [k \in 1..Len(track) |-> <<track[k].start_seconds, track[k].end_seconds, track[k].text>>]

\* the part of the caption track that comes from the chunk's window
ChunkSegments(chunk) == SelectSeq(segments, LAMBDA seg : seg.chunk = chunk)

\* the segments of one response for the chunk, as the track orders them
SegmentsOf(chunk, data) ==
  Triples(SortByStart(AdjustedSegments(data, chunk * CHUNK_DURATION, 0, chunk, 0)))

(* C8: a successful attempt is the last attempt of its chunk, and when a    *)
(* run reaches completed the track holds, for every chunk of the source,    *)
(* exactly the segments of the response of that chunk's successful attempt. *)
C8_MergedExactlyOnce ==
  \A r \in Runs :
    /\ \A k \in 1..Len(runs[r].hist) :
         runs[r].hist[k].res = "ok" => k = Len(runs[r].hist)
    /\ runs[r].result = "completed" =>
         \A c \in 0..(runs[r].numChunks - 1) :
           Triples(ChunkSegments(c)) = SegmentsOf(c, runs[r].got[c + 1])

(* C9: the caption track never holds the segments of the same chunk of the  *)
(* source more than once: all segments of a chunk come from one merge.      *)
C9_NoDuplicateOutput ==
  \A a, b \in 1..Len(segments) :
    segments[a].chunk = segments[b].chunk => segments[a].merge = segments[b].merge

(* C10: a run dispatches its chunks one after the other in index order:     *)
(* while chunk i is dispatched exactly the chunks 0..i-1 have succeeded,    *)
(* and during the gap after chunk i exactly 0..i; no two runs are under way *)
(* at once and at most one transcription request is outstanding.            *)
C10_Sequential ==
  /\ \A r \in Runs :
       /\ runs[r].pc \in {"prep", "request", "cooldown", "retry"} =>
            Len(runs[r].got) = runs[r].i
       /\ runs[r].pc = "gap" => Len(runs[r].got) = runs[r].i + 1
  /\ Cardinality({ r \in Runs : runs[r].pc # "done" }) <= 1
  /\ Cardinality({ r \in Runs : runs[r].pc = "request" }) <= 1

C10_Witness ==
  \E r \in Runs :
    /\ runs[r].pc = "request"
    /\ runs[r].i = 1
    /\ r > 1

(* C11: when a chunk exhausts its ladder the run is in status error and no  *)
(* longer processing; the step that fails the chunk leaves the caption      *)
(* track as it was, and afterwards the run makes no attempt for that chunk  *)
(* or a later one: its record, the track and the analytics stay as they are.*)
C11_AbortKeepsOutput ==
  /\ [](\A r \in Runs : FailedChunk(r) => (status = "error" /\ ~isProcessing))
  /\ [][\A r \in Runs :
          FailedChunk(r)' =>
            /\ segments' = segments
            /\ FailedChunk(r) => (runs'[r] = runs[r] /\ analytics' = analytics)]_vars

C11_Witness ==
  \E r \in Runs :
    /\ FailedChunk(r)
    /\ runs[r].i = 1
    /\ Len(segments) = 2
    /\ status = "error"

\* the latest attempt of run r for its current chunk succeeded
Succeeded(r) ==
  /\ runs[r].hist # << >>
  /\ runs[r].hist[Len(runs[r].hist)].res = "ok"

(* C12: the first attempt of every chunk but the first comes REQUEST_GAP    *)
(* after the success of the chunk before it, however that chunk succeeded;  *)
(* a run waits in the gap only after a success of a chunk that is not the   *)
(* last: the success of the last chunk completes the run at once and a      *)
(* failed chunk ends it at once.                                            *)
C12_GapBetweenChunks ==
  \A r \in Runs :
    /\ runs[r].hist # << >> =>
         runs[r].hist[1].gap = (IF runs[r].i = 0 THEN 0 ELSE REQUEST_GAP)
    /\ runs[r].pc = "gap" <=> (Succeeded(r) /\ runs[r].i < runs[r].numChunks - 1)
    /\ (Succeeded(r) /\ runs[r].i = runs[r].numChunks - 1) =>
         (runs[r].pc = "done" /\ runs[r].result = "completed")
    /\ Failed(r) # {} /\ ~Succeeded(r) => runs[r].pc # "gap"

C12_Witness ==
  \E r \in Runs :
    /\ runs[r].i = 1
    /\ runs[r].pc = "prep"
    /\ runs[r].hist[1].gap = REQUEST_GAP
    /\ analytics.totalRequests = 1
    /\ analytics.successfulRequests = 1

(* C13: a run that has ended with completed has merged a response for      *)
(* every chunk of its plan and none of its chunks failed; a run whose chunk *)
(* exhausted the ladder or whose source could not be decoded has ended with *)
(* status error; a run that has ended never changes its outcome, so no run  *)
(* reaches both completed and error.                                        *)
C13_RunOutcome ==
  /\ [](\A r \in Runs :
          /\ runs[r].result = "completed" =>
               /\ status = "completed"
               /\ Len(runs[r].got) = runs[r].numChunks
               /\ Succeeded(r) \/ runs[r].numChunks = 0
          /\ runs[r].result \in {"exhausted", "decode"} => status = "error"
          /\ runs[r].pc = "done" <=> runs[r].result # "none")
  /\ [][\A r \in Runs :
          runs[r].pc = "done" =>
            (runs'[r].result = runs[r].result /\ status' = status)]_vars

C13_Witness ==
  \E r \in Runs :
    /\ runs[r].result = "completed"
    /\ status = "completed"
    /\ runs[r].numChunks = 2
    /\ analytics.totalRequests > analytics.successfulRequests

\* the run under way, if there is one
Current == { r \in Runs : runs[r].pc # "done" }

(* C14, as claimed: a run starts by entering connecting, and while it is    *)
(* under way the status only goes from connecting to streaming, from        *)
(* streaming to completed or error, and from connecting to error when the   *)
(* source cannot be decoded; streaming is never left before the run ends.   *)
C14_StatusMachine ==
  [][/\ (~isProcessing /\ isProcessing') => status' = "connecting"
     /\ (isProcessing /\ status' # status) =>
          \/ status = "connecting" /\ status' = "streaming"
          \/ status = "streaming" /\ status' \in {"completed", "error"}
          \/ /\ status = "connecting" /\ status' = "error"
             /\ \E r \in Current : runs'[r].result = "decode"]_vars

(* C14, amended: a run starts by entering connecting; while it is under way *)
(* the status goes from connecting to streaming when a request is sent,     *)
(* from streaming back to connecting when a failed attempt is followed by   *)
(* the retry delay or the quota cooldown, from streaming or connecting to   *)
(* error when the run aborts, from streaming to completed, and from         *)
(* connecting to completed only for a source with no chunk.                 *)
C14_StatusTransitions ==
  [][/\ (~isProcessing /\ isProcessing') => status' = "connecting"
     /\ (isProcessing /\ status' # status) =>
          \/ /\ status = "connecting" /\ status' = "streaming"
             /\ \E r \in Current : runs'[r].pc = "request"
          \/ /\ status = "streaming" /\ status' = "connecting"
             /\ \E r \in Current : /\ runs[r].pc \in {"prep", "request"}
                                   /\ runs'[r].pc \in {"retry", "cooldown"}
          \/ /\ status \in {"streaming", "connecting"} /\ status' = "error"
             /\ \E r \in Current : /\ runs'[r].pc = "done"
                                   /\ runs'[r].result \in {"decode", "exhausted", "offline"}
          \/ /\ status = "streaming" /\ status' = "completed"
             /\ \E r \in Current : runs'[r].result = "completed"
          \/ /\ status = "connecting" /\ status' = "completed"
             /\ \E r \in Current : /\ runs'[r].result = "completed"
                                   /\ runs'[r].numChunks = 0]_vars

C14_Witness ==
  \E r \in Runs :
    /\ runs[r].pc \in {"retry", "cooldown"}
    /\ status = "connecting"
    /\ analytics.totalRequests >= 1
    /\ isProcessing

(* C15: the first attempt of every chunk is at rung 0 of the ladder with    *)
(* retryCount 0, on the first model of the engine's sequence, whatever rung *)
(* the chunk before it succeeded at and whatever retries it used.           *)
C15_FreshAttemptState ==
  \A r \in Runs :
    runs[r].hist # << >> =>
      /\ runs[r].hist[1].rung = 0
      /\ runs[r].hist[1].retry = 0
      /\ (Len(runs[r].hist) = 1 /\ runs[r].pc \in {"prep", "request"}) =>
           /\ runs[r].attemptIndex = 0
           /\ runs[r].retryCount = 0
           /\ activeModelId = ModelAt(runs[r].engine, 0).id

C15_Witness ==
  \E r \in Runs :
    /\ runs[r].i = 1
    /\ Len(runs[r].hist) = 1
    /\ runs[r].pc = "prep"
    /\ runs[r].attemptIndex = 0
    /\ analytics.failoverEvents >= 2
    /\ analytics.modelMetrics[ModelAt(runs[r].engine, 2).id].success = 1

C17_MergeOnlyAdds ==
  [][nMerges' = nMerges + 1 =>
       /\ SelectSeq(segments', LAMBDA seg : seg.merge <= nMerges) = segments
       /\ Len(segments') = Len(segments) + (nextId' - nextId)
       /\ \A j, k \in 1..Len(segments') :
            (/\ segments'[j].start_seconds = segments'[k].start_seconds
             /\ segments'[j].merge = nMerges'
             /\ \/ segments'[k].merge < nMerges'
                \/ segments'[k].merge = nMerges' /\ segments'[k].id < segments'[j].id)
            => k < j]_vars

C17_Witness ==
  \E j, k \in 1..Len(segments) :
    /\ j < k
    /\ segments[j].start_seconds = segments[k].start_seconds
    /\ segments[j].merge = 1 /\ segments[k].merge = 2
    /\ segments[j].chunk = 1 /\ segments[k].chunk = 0
    /\ Len(segments) = 4

(* C18: every segment of the track made from a raw triple of chunk c has    *)
(* start_seconds = raw.start + c * CHUNK_DURATION, end_seconds = raw.end +  *)
(* c * CHUNK_DURATION and the raw text; raw (0, 2, "a") of the window that  *)
(* starts at 600 gives start 600, end 602, text "a".                        *)
C18_WindowOffset ==
  \A k \in 1..Len(segments) :
    LET seg == segments[k]
        windowStart == seg.chunk * CHUNK_DURATION
    IN  [start |-> seg.start_seconds - windowStart,
         end |-> seg.end_seconds - windowStart,
         text |-> seg.text] \in RawTriples

C18_Witness ==
  \E k \in 1..Len(segments) :
    /\ segments[k].chunk = 2
    /\ segments[k].start_seconds = 600
    /\ segments[k].end_seconds = 602
    /\ segments[k].text = "a"

\* the segments of the track by chunk index and, inside a chunk, in the
\* order of the chunk's result: what merging in index order starts from
InsertByChunk(t, x) ==
  LET k == Cardinality({ j \in 1..Len(t) :
                           \/ t[j].chunk < x.chunk
                           \/ t[j].chunk = x.chunk /\ t[j].id < x.id })
  IN  SubSeq(t, 1, k) \o <<x>> \o SubSeq(t, k + 1, Len(t))

RECURSIVE InIndexOrder(_)
InIndexOrder(s) ==
  IF s = << >> THEN << >>
  ELSE InsertByChunk(InIndexOrder(SubSeq(s, 1, Len(s) - 1)), s[Len(s)])

\* the track that the same chunk results give when merged in index order
MergedInIndexOrder == SortByStart(InIndexOrder(segments))

\* two segments of different chunks start at the same time
TieAcrossChunks ==
  \E j, k \in 1..Len(segments) :
    /\ segments[j].chunk # segments[k].chunk
    /\ segments[j].start_seconds = segments[k].start_seconds

(* C19, as claimed: the chunk results merged in any order give the same     *)
(* sequence of (start, end, text) as merged in index order, also when       *)
(* segments of different chunks have equal start_seconds.                   *)
C19_OrderIndependent ==
  Triples(segments) = Triples(MergedInIndexOrder)

(* C19, amended: the chunk results merged in any order give the same        *)
(* sequence of (start, end, text) as merged in index order when no two      *)
(* segments of different chunks have equal start_seconds; with such ties    *)
(* the two sequences have the same start at every position and differ at    *)
(* most in the order of segments that start at the same time.               *)
C19_OrderIndependentUpToTies ==
  /\ ~TieAcrossChunks => Triples(segments) = Triples(MergedInIndexOrder)
  /\ \A k \in 1..Len(segments) :
       segments[k].start_seconds = MergedInIndexOrder[k].start_seconds

C19_Witness ==
  /\ nMerges = 2
  /\ ~TieAcrossChunks
  /\ \E j, k \in 1..Len(segments) :
       /\ j < k
       /\ segments[j].chunk = 1 /\ segments[j].merge = 1
       /\ segments[k].chunk = 0 /\ segments[k].merge = 2
       /\ segments[j].start_seconds < segments[k].start_seconds

\* the run has decoded its source and planned its chunks
Planned(r) == runs[r].pc # "decode" /\ runs[r].result # "decode"

(* C20: the plan of a source of duration d has ceil(d / CHUNK_DURATION)     *)
(* windows, none when d is 0; the window of chunk i goes from               *)
(* i * CHUNK_DURATION to min((i + 1) * CHUNK_DURATION, d) and its length is *)
(* positive and at most CHUNK_DURATION; the first window starts at 0, each  *)
(* window starts where the one before it ends, and the last one ends at d.  *)
C20_ChunkPlan ==
  /\ [](\A r \in Runs :
          Planned(r) =>
            LET d == videoFile.duration
                n == runs[r].numChunks
                i == runs[r].i
                window == runs[r].window
            IN  /\ n * CHUNK_DURATION >= d
                /\ (n - 1) * CHUNK_DURATION < d
                /\ d = 0 => n = 0
                /\ n > 0 =>
                     /\ i \in 0..(n - 1)
                     /\ window.start = i * CHUNK_DURATION
                     /\ window.end = Min((i + 1) * CHUNK_DURATION, d)
                     /\ window.end - window.start > 0
                     /\ window.end - window.start <= CHUNK_DURATION
                     /\ i = 0 => window.start = 0
                     /\ i = n - 1 => window.end = d
                /\ runs[r].result = "completed" => (n = 0 \/ i = n - 1))
  /\ [][\A r \in Runs :
          (Planned(r) /\ runs'[r].i # runs[r].i) =>
            /\ runs'[r].i = runs[r].i + 1
            /\ runs'[r].window.start = runs[r].window.end]_vars

C20_Witness ==
  \E r \in Runs :
    /\ videoFile.duration = 780
    /\ runs[r].numChunks = 3
    /\ runs[r].i = 2
    /\ runs[r].window = [start |-> 600, end |-> 780]
    /\ runs[r].result = "completed"

(* C21: the audio of a chunk is prepared once: a preparation is carried    *)
(* out (the run goes from preparing to its request) only for the first      *)
(* attempt of the chunk; later attempts reuse the payload.                  *)
C21_PreparedOncePerChunk ==
  [][\A r \in Runs :
       (runs[r].pc = "prep" /\ runs'[r].pc = "request") =>
         Len(runs[r].hist) = 1]_vars

(* C22: a failure of the audio preparation of a chunk is propagated and    *)
(* not retried: the step in which the preparation fails ends the run in     *)
(* error with no further attempt entered, no failover event counted and no  *)
(* request counted for any model.                                           *)
C22_PrepFailurePropagates ==
  [][\A r \in Runs :
       (/\ runs[r].pc = "prep"
        /\ runs'[r].hist[Len(runs[r].hist)].res \in {"fault", "quota"}) =>
         /\ runs'[r].pc = "done"
         /\ status' = "error"
         /\ Len(runs'[r].hist) = Len(runs[r].hist)
         /\ analytics'.totalRequests = analytics.totalRequests
         /\ analytics'.failoverEvents = analytics.failoverEvents
         /\ analytics'.modelMetrics = analytics.modelMetrics]_vars

(* C23: a response with an element that lacks a required field is a        *)
(* malformed response: its attempt is a failure and none of its elements    *)
(* gets into the caption track, so the track never holds a segment with an  *)
(* undefined text and no attempt answered that way is recorded as a success.*)
C23_InvalidElementsRejected ==
  /\ \A k \in 1..Len(segments) : segments[k].text # Undefined
  /\ \A r \in Runs : \A c \in 1..Len(runs[r].got) :
       \A k \in 1..Len(runs[r].got[c]) : runs[r].got[c][k].text # Undefined

\* the attempts of run r for its current chunk that have ended
Ended(r) == { k \in 1..Len(runs[r].hist) : runs[r].hist[k].res # "pending" }

(* C24: every attempt counts one request: in a first run whose earlier      *)
(* chunks each took one attempt, totalRequests is the number of those       *)
(* chunks plus the number of ended attempts of the current chunk, and       *)
(* successfulRequests is the number of chunks that succeeded, i.e. whose    *)
(* response was merged into the track.                                      *)
C24_OneCountPerAttempt ==
  \A r \in Runs :
    /\ analytics.totalRequests = runs[r].i + Cardinality(Ended(r))
    /\ analytics.successfulRequests = Len(runs[r].got)

\* sum over the models of success + fail
RECURSIVE MetricsTotal(_, _)
MetricsTotal(metrics, ids) ==
  IF ids = {} THEN 0
  ELSE LET m == CHOOSE x \in ids : TRUE
       IN  metrics[m].success + metrics[m].fail + MetricsTotal(metrics, ids \ {m})

\* no counter of b is below the same counter of a
NotBelow(a, b) ==
  /\ b.totalRequests >= a.totalRequests
  /\ b.successfulRequests >= a.successfulRequests
  /\ b.failoverEvents >= a.failoverEvents
  /\ \A m \in ModelIds : /\ b.modelMetrics[m].success >= a.modelMetrics[m].success
                         /\ b.modelMetrics[m].fail >= a.modelMetrics[m].fail

(* C25: in every state successfulRequests <= totalRequests and the sum over *)
(* the models of success + fail is totalRequests; no step other than the    *)
(* loading of a source lowers totalRequests, successfulRequests,            *)
(* failoverEvents or a model's success or fail counter: in particular the   *)
(* start and the end of a run leave all of them as they are.                *)
C25_CountersMonotone ==
  /\ [](/\ analytics.successfulRequests <= analytics.totalRequests
        /\ MetricsTotal(analytics.modelMetrics, ModelIds) = analytics.totalRequests)
  /\ [][videoFile' = videoFile => NotBelow(analytics, analytics')]_vars
  /\ [][(~isProcessing /\ isProcessing') =>
          (NotBelow(analytics, analytics') /\ NotBelow(analytics', analytics))]_vars

C25_Witness ==
  /\ Len(runs) = 2
  /\ runs[2].pc = "decode"
  /\ analytics.totalRequests >= 2
  /\ analytics.successfulRequests >= 1
  /\ analytics.failoverEvents >= 1

(* C26: the incident log never holds more than MAX_INCIDENTS entries; a    *)
(* logged incident becomes the first entry and the entries that were there  *)
(* follow it in their order, the oldest (last) one being dropped when the   *)
(* log was full.                                                            *)
C26_IncidentCap ==
  /\ [](Len(incidents) <= MAX_INCIDENTS)
  /\ [][budget'.events < budget.events =>
          /\ Len(incidents') = Min(Len(incidents) + 1, MAX_INCIDENTS)
          /\ \A k \in 2..Len(incidents') : incidents'[k] = incidents[k - 1]
          /\ \E type \in {"Fault", "Quota"} : incidents'[1] = AttemptIncident(type)]_vars

C26_Witness ==
  /\ Len(incidents) = MAX_INCIDENTS
  /\ budget.events = 0
  /\ incidents[1].type = "Quota"
  /\ incidents[2].type = "Fault"
  /\ incidents[MAX_INCIDENTS].type = "Quota"

\* the step ends the pending attempt of run r in a failure
FailStep(r) ==
  /\ runs[r].hist # << >>
  /\ runs[r].hist[Len(runs[r].hist)].res = "pending"
  /\ runs'[r].hist[Len(runs[r].hist)].res \in {"fault", "quota"}

\* the step that fails an attempt of run r also leaves its rung for the next
Escalates(r) ==
  \/ runs'[r].pc = "cooldown"
  \/ Len(runs'[r].hist) > Len(runs[r].hist)

(* C27: the step in which an attempt fails puts an incident for the failed  *)
(* attempt (its model, Quota or Fault) on the log, and a Failover incident  *)
(* on top of it when the step leaves the rung for the next one; so while a  *)
(* run waits for the retry delay or the cooldown the incidents of the       *)
(* failure are already in the log; and no step of a dispatch removes an     *)
(* incident, whether the chunk then succeeds or not.                        *)
C27_IncidentsBeforeDelay ==
  /\ [][\A r \in Runs :
          FailStep(r) =>
            LET k == Len(runs[r].hist)
                a == runs'[r].hist[k]
                n == Len(incidents') - Len(incidents)
            IN  /\ n >= 1
                /\ n <= Len(incidents')
                /\ incidents'[n].model = ModelAt(runs[r].engine, a.rung).label
                /\ incidents'[n].type = (IF a.res = "quota" THEN "Quota" ELSE "Fault")
                /\ Escalates(r) => (n >= 2 /\ incidents'[n - 1].model = "Failover")]_vars
  /\ [][\E n \in 0..3 :
          /\ Len(incidents') = Len(incidents) + n
          /\ SubSeq(incidents', n + 1, Len(incidents')) = incidents]_vars
  /\ [](\A r \in Runs :
          /\ runs[r].pc = "retry" =>
               (/\ Len(incidents) >= 1
                /\ incidents[1].type = "Fault"
                /\ incidents[1].model = ModelAt(runs[r].engine, runs[r].attemptIndex).label)
          /\ runs[r].pc = "cooldown" =>
               (/\ Len(incidents) >= 2
                /\ incidents[1].model = "Failover"
                /\ incidents[2].type = "Quota"
                /\ incidents[2].model = ModelAt(runs[r].engine, runs[r].attemptIndex).label))

C27_Witness ==
  \E r \in Runs :
    /\ Succeeded(r)
    /\ Len(runs[r].hist) >= 4
    /\ Len(incidents) >= 5
    /\ \E k \in 1..Len(incidents) : incidents[k].type = "Quota Shift"
    /\ \E k \in 1..Len(incidents) : incidents[k].type = "Fault Recovery"

(* C28: when every call and every timer returns, a chunk never takes more  *)
(* than 2*L attempts, whatever their outcomes, and a run that has started   *)
(* ends: it reaches status completed or error with isProcessing false.      *)
C28_RunTerminates ==
  /\ [](\A r \in Runs : Len(runs[r].hist) <= 2 * LadderLength(r))
  /\ isProcessing ~> (~isProcessing /\ status \in {"completed", "error"})

C28_Witness ==
  \E r \in Runs :
    /\ runs[r].result = "completed"
    /\ runs[r].numChunks = 1
    /\ Len(runs[r].hist) = 2 * LadderLength(r)
    /\ ~isProcessing

\* the timestamp HH:MM:SS,mmm of a time below 24 h given in thousandths
Stamp(thousandths) ==
  PadStart(thousandths \div 3600000, 2) \o ":"
    \o PadStart((thousandths \div 60000) % 60, 2) \o ":"
    \o PadStart((thousandths \div 1000) % 60, 2) \o ","
    \o PadStart(thousandths % 1000, 3)

(* C29: the exported text has one block per segment of the track, in the   *)
(* order of the track, numbered from 1: the index, the line                *)
(* 'start --> end' with both times as HH:MM:SS,mmm, and the text; the      *)
(* blocks are separated by a blank line.                                   *)
C29_SrtBlocks ==
  download.exported =>
    download.text =
      Join([k \in 1..Len(segments) |->
              PadStart(k, 1) \o "\n"
                \o Stamp(segments[k].start_seconds) \o " --> "
                \o Stamp(segments[k].end_seconds) \o "\n"
                \o segments[k].text \o "\n"],
           "\n")

\* the export of the example track is the text of the example
C29_Example ==
  /\ download.exported
  /\ Len(segments) = 1
  /\ segments[1].start_seconds = 65250
  /\ segments[1].end_seconds = 67000
  /\ segments[1].text = "hi"
  /\ download.text = "1\n00:01:05,250 --> 00:01:07,000\nhi\n"

\* a time of 1.001 s is exported as 00:00:01,000
C29_LostMillisecond ==
  /\ download.exported
  /\ Len(segments) = 1
  /\ segments[1].start_seconds = 1001
  /\ segments[1].end_seconds = 1001
  /\ segments[1].text = "hi"
  /\ download.text = "1\n00:00:01,000 --> 00:00:01,000\nhi\n"

\* the ladder of an engine names every model of the pool exactly once
IsPermutation(ladder) ==
  /\ Len(ladder) = Len(MODEL_POOL)
  /\ \A m \in 0..(Len(MODEL_POOL) - 1) :
       Cardinality({ k \in 1..Len(ladder) : ladder[k] = m }) = 1

(* C30: within the dispatch of one chunk, whatever the classifications of   *)
(* the failures, the rung of the attempts never decreases and lies in       *)
(* 0..L-1, retryCount is 0 or 1, no rung is attempted more than twice, and, *)
(* every ladder being a permutation of the pool, no model is attempted at   *)
(* two different rungs.                                                     *)
C30_LadderInvariant ==
  /\ \A e \in Engines : IsPermutation(ENGINE_MAP[e])
  /\ \A r \in Runs :
       LET h == runs[r].hist IN
       /\ runs[r].attemptIndex \in 0..(LadderLength(r) - 1)
       /\ runs[r].retryCount \in {0, 1}
       /\ \A k \in 1..Len(h) :
            /\ h[k].rung \in 0..(LadderLength(r) - 1)
            /\ h[k].retry \in {0, 1}
            /\ k < Len(h) => h[k].rung <= h[k + 1].rung
            /\ Cardinality({ j \in 1..Len(h) : h[j].rung = h[k].rung }) <= 2
            /\ \A j \in 1..Len(h) :
                 h[j].rung # h[k].rung =>
                   ModelAt(runs[r].engine, h[j].rung).id
                     # ModelAt(runs[r].engine, h[k].rung).id

C30_Witness ==
  \E r \in Runs :
    LET h == runs[r].hist IN
    /\ Len(h) >= 5
    /\ h[Len(h)].rung = LadderLength(r) - 1
    /\ h[Len(h)].retry = 1
    /\ \E k \in 1..Len(h) : h[k].res = "quota"
    /\ \E k \in 1..Len(h) : h[k].res = "fault" /\ h[k].retry = 1
    /\ runs[r].engine # "titan"

\* the step ends run r by the connectivity guard of line 140
CutsOffline(r) ==
  /\ runs[r].pc # "done"
  /\ runs'[r].pc = "done"
  /\ runs'[r].result = "offline"

\* the step is the failure of the attempt under way
FailsNow(r) == runs[r].pc \in {"prep", "request"}

(* C31: an attempt (the first of a chunk, a retry or an escalation) starts  *)
(* only while the host is online; when the host is offline at that point    *)
(* the run ends with status error, no attempt is made and no request is in  *)
(* flight, nothing is counted or logged for it (the counters and the log    *)
(* change only by what the failure before it added, and by the Fatal        *)
(* incident of the abort), and the run makes no further attempt.            *)
C31_OfflineGuard ==
  [][\A r \in Runs :
       /\ (runs'[r].pc = "prep" /\ runs[r].pc # "prep") => online
       /\ runs[r].pc = "done" => runs'[r] = runs[r]
       /\ CutsOffline(r) =>
            LET n == IF FailsNow(r) THEN 1 ELSE 0
                m == ModelAt(runs[r].engine, runs[r].attemptIndex).id
            IN
            /\ ~online
            /\ status' = "error"
            /\ ~isProcessing'
            /\ segments' = segments
            /\ \A k \in 1..Len(runs'[r].hist) : runs'[r].hist[k].res # "pending"
            /\ Len(runs'[r].hist) =
                 IF runs[r].pc \in {"decode", "gap"} THEN 0 ELSE Len(runs[r].hist)
            /\ analytics'.totalRequests = analytics.totalRequests + n
            /\ analytics'.successfulRequests = analytics.successfulRequests
            /\ analytics'.failoverEvents = analytics.failoverEvents + n
            /\ \A id \in ModelIds :
                 /\ analytics'.modelMetrics[id].success = analytics.modelMetrics[id].success
                 /\ analytics'.modelMetrics[id].fail =
                      analytics.modelMetrics[id].fail + (IF id = m THEN n ELSE 0)
            /\ Len(incidents') = Len(incidents) + 1 + 2 * n
            /\ incidents'[1].type = "Fatal"
            /\ SubSeq(incidents', 2 + 2 * n, Len(incidents')) = incidents
    ]_vars

C31_Witness ==
  \E r \in Runs :
    LET h == runs[r].hist IN
    /\ CutOffline(r)
    /\ status = "error"
    /\ Len(h) = 2
    /\ h[2].res = "fault"
    /\ h[2].retry = 1
    /\ analytics.failoverEvents = 1
    /\ Len(incidents) = 4

(* C32: a run is started only on a loaded source and while no run is under  *)
(* way, so at most one run is under way; isProcessing is true exactly while *)
(* a run is under way, which is in status connecting or streaming, and is   *)
(* false once the run has reached completed or error; the engine is not     *)
(* changed while isProcessing is true, so a run keeps the ladder it started *)
(* with.                                                                    *)
C32_SingleRun ==
  /\ [](isProcessing <=> Current # {})
  /\ [](Cardinality(Current) <= 1)
  /\ [](isProcessing => status \in {"connecting", "streaming"})
  /\ []((~isProcessing /\ runs # << >>) => status \in {"completed", "error"})
  /\ [](\A r \in Current : runs[r].engine = selectedEngine)
  /\ [][/\ Len(runs') > Len(runs) =>
            (videoFile # NoFile /\ ~isProcessing /\ isProcessing')
        /\ isProcessing => selectedEngine' = selectedEngine]_vars

C32_Witness ==
  /\ isProcessing
  /\ Len(runs) = 2
  /\ runs[1].pc = "done"
  /\ runs[2].pc = "request"
  /\ runs[1].engine # runs[2].engine
  /\ selectedEngine = runs[2].engine

(* C33: in the single-model variant a chunk is attempted at most 4 times,   *)
(* the k-th attempt with retryCount k-1; a chunk is reported failed, and    *)
(* the run goes to status error, exactly when its fourth attempt fails;     *)
(* retry k starts k times the base delay after the failure before it, the   *)
(* base being 20 s after a quota error and 5 s after any other; a failing   *)
(* attempt adds no segment.                                                 *)
C33_SingleModelRetries ==
  /\ [](\A r \in Runs :
         LET h == runs[r].hist IN
         /\ Len(h) <= 4
         /\ \A k \in 1..Len(h) :
              /\ h[k].retry = k - 1
              /\ k > 1 =>
                   /\ h[k - 1].res \in {"quota", "fault"}
                   /\ h[k].gap =
                        (k - 1) * (IF h[k - 1].res = "quota" THEN 20000 ELSE 5000)
         /\ FailedChunk(r) <=> (Len(h) = 4 /\ h[4].res \in {"quota", "fault"})
         /\ FailedChunk(r) => (status = "error" /\ ~isProcessing))
  /\ [][\A r \in Runs :
          Cardinality(Failed(r))' > Cardinality(Failed(r)) => segments' = segments]_vars

C33_Witness ==
  \E r \in Runs :
    LET h == runs[r].hist IN
    /\ FailedChunk(r)
    /\ runs[r].i = 1
    /\ segments # << >>
    /\ Len(h) = 4
    /\ h[2].gap = 20000
    /\ h[3].gap = 10000
    /\ h[4].gap = 60000
    /\ status = "error"

====
